---- MODULE Spec2Model ----
(***************************************************************************)
(* rnw: a microblog over a page-publishing service (telegra.ph).           *)
(*                                                                         *)
(* The model holds the remote page store, the clock, the module-level      *)
(* client (core.api and its access_token), one caller of write, one        *)
(* caller of find_total_posts / readlist_stream, and the readlist_stream   *)
(* calls that preload_posts runs on threads.  Every remote request is one  *)
(* step; a request may fail (network error, malformed response) as long as *)
(* the fault budget lasts.                                                 *)
(*                                                                         *)
(* Strings built by the code are modelled as tuples of their parts:        *)
(*   "rnwposta-11-04-2"      is  <<"rnw", "post", "a", 1104, 2>>           *)
(*   "rnwlista-5-9-11-04"    is  <<"rnw", "list", "a", 5, 9, 1104>>        *)
(* Channel names are taken to hold no '-' and nothing quote() escapes, so  *)
(* that the parts of an address can be told apart.                         *)
(***************************************************************************)
EXTENDS Integers, Sequences, FiniteSets, TLC

VARIABLES
    pages,      \* the remote store: path -> page
    today,      \* the current UTC date: [y, m, d]
    token,      \* api.access_token of the module-level client
    faults,     \* remote requests that may still fail
    net,        \* the ways a getPage request goes wrong in this behaviour
    wr,         \* the caller of write
    rd,         \* the caller of find_total_posts / readlist_stream that runs
    parked,     \* the readlist_stream calls of the threads that do not run
    tui,        \* the fields of ChatTUI (rnw.py)
    writes,     \* calls of write still to come
    reads       \* calls of find_total_posts / readlist_stream still to come

vars == <<pages, today, token, faults, net, wr, rd, parked, tui, writes, reads>>

-----------------------------------------------------------------------------
(* Bounds of the model *)

MaxN == 33          \* posts of the channel in the initial store (SpecCount)
MaxFaults == 1      \* remote requests that may fail in one behaviour
MaxWrites == 1      \* calls of write in one behaviour
MaxReads == 1       \* calls of find_total_posts / readlist_stream in one behaviour

(* Program constants *)

guess == 16         \* find_total_posts: guess = 16

Channels == {"", "a"}           \* "" stands for channel None (channel or '')
Texts == {"x", "y", "z"}        \* post contents
NewTexts == {"y"}               \* contents given to write
PageNos == {1, 2}
PageSizes == {2, 10}

User == "user"                  \* getpass.getuser()
NoToken == 0                    \* access_token = None

-----------------------------------------------------------------------------
(* The calendar *)

\* The dates of a behaviour, in order: a day, the next day, and the same day
\* of the next year.
Calendar ==
    << [y |-> 2025, m |-> 11, d |-> 4],
       [y |-> 2025, m |-> 11, d |-> 5],
       [y |-> 2026, m |-> 11, d |-> 4] >>

\* strftime("%m-%d"): month and day, "11-04" as 1104; the year is left out
Strftime(t) == t.m * 100 + t.d

\* generate_url 15: date = datetime.now(utc).strftime("%m-%d")
dateAtImport == Strftime(Calendar[1])
date == Strftime(today)

-----------------------------------------------------------------------------
(* Naming scheme *)

\* f"post{channel or ''}"
PostType(channel) == <<"post", channel>>

\* f"list{channel or ''}-{start}-{end}"
ListType(channel, start, end) == <<"list", channel, start, end>>

\* core.generate_url: rnw + type name + "-" + date + ("-" + index if index > 1)
generate_urlAlwaysSuffix(type_name, index) ==
    <<"rnw">> \o type_name \o <<date>> \o <<index>>

generate_url(type_name, index) ==
    <<"rnw">> \o type_name \o <<date>> \o (IF index > 1 THEN <<index>> ELSE <<>>)

\* write: metadata = f"rnwpost{channel or ''}"
PostTitle(channel) == <<"rnw", "post", channel>>

\* save_cache: metadata = f"rnwlist{channel or ''}-{start}-{end}"
ListTitle(channel, start, end) == <<"rnw", "list", channel, start, end>>

-----------------------------------------------------------------------------
(* The remote page store, as the client's requests see it *)

\* The path the store gives the k-th page of a title created on day d:
\* title-MM-DD, title-MM-DD-2, title-MM-DD-3, ...
PathOf(title, d, k) == title \o <<d>> \o (IF k > 1 THEN <<k>> ELSE <<>>)

\* The first k whose path is free, today.
FreeIndex(title) ==
    CHOOSE k \in 1..(Cardinality(DOMAIN pages) + 1) :
        /\ PathOf(title, date, k) \notin DOMAIN pages
        /\ \A j \in 1..(k - 1) : PathOf(title, date, j) \in DOMAIN pages

\* The page createPage stores: description is the text of the content; the
\* store knows the date it made the page (written), the client never sees it.
NewPage(author, text) ==
    [author_name |-> author, content |-> <<text>>, description |-> text,
     written |-> today]

\* json.dumps / json.loads: a text is <<kind, value>>; only a "json" text parses
Dumps(posts) == <<"json", posts>>
IsJson(s) == s[1] = "json"
Loads(s) == s[2]

\* A page whose fields hold no JSON (a foreign or damaged cache page).
JunkPage ==
    [author_name |-> User, content |-> <<(<<"text", "junk">>)>>,
     description |-> <<"text", "junk">>, written |-> Calendar[1]]

\* What the store may answer to getPage(path): the page, not-found, or a
\* failure; `odd` names the damaged answers the caller can tell from a page
\* ("nodesc": a page without description, "junk": a page without JSON).
GetResps(path, odd) ==
    (IF path \in DOMAIN pages THEN {"ok"} ELSE {"notfound"})
        \cup (IF faults > 0 THEN net \cap {"neterr", "malformed"} ELSE {})
        \cup (IF faults > 0 /\ path \in DOMAIN pages THEN net \cap odd ELSE {})

\* What the store may answer to createAccount / createPage; `odd` as above
\* ("notoken": an account without access_token).
PostResps(odd) ==
    {"ok"} \cup (IF faults > 0 THEN {"neterr", "apierr"} \cup odd ELSE {})

IsFault(resp) == resp \in {"neterr", "malformed", "apierr", "notoken", "nodesc", "junk"}

CountFault(resp) == faults' = faults - (IF IsFault(resp) THEN 1 ELSE 0)

\* TelegraphAPI._request: the result, or an exception
Request(resp) ==
    IF resp \in {"notfound", "neterr", "malformed", "apierr"}
    THEN "exception" ELSE "result"

\* The page a successful getPage(path) returns.
GotPage(path, resp) ==
    CASE resp = "nodesc" -> [pages[path] EXCEPT !.description = ""]
      [] resp = "junk" -> JunkPage
      [] OTHER -> pages[path]

\* The store after createPage(title, ...) succeeded, and the path it gave.
NewPath(title) == PathOf(title, date, FreeIndex(title))
StoredOverwrites(title, page) == (PathOf(title, date, 1) :> page) @@ pages
Stored(title, page) == (NewPath(title) :> page) @@ pages

PostPaths(channel) ==
    {p \in DOMAIN pages : p[2] = "post" /\ p[3] = channel}

-----------------------------------------------------------------------------
(* write (core.py 19-28) *)

\* The locals of one call; before is the number of post pages of the channel
\* when the call began, log the list of remote requests the call made.
WrIdle ==
    [pc |-> "idle", channel |-> "", content |-> "", before |-> 0, log |-> <<>>]

\* A remote request as a call saw it: the statement that made it (at), the
\* index asked for (i), the store's answer (resp), and whether it gave the
\* caller what it wanted (ans).
Entry(op, at, i, resp, ans) ==
    [op |-> op, at |-> at, i |-> i, resp |-> resp, ans |-> ans]

Logged(r, op, i, resp, ans) ==
    [r EXCEPT !.log = Append(@, Entry(op, r.pc, i, resp, ans))]

\* TelegraphAPI.create_account: self.access_token = result.get("access_token",
\* self.access_token); every account the store makes has a token of its own
create_account(resp) == IF resp = "ok" THEN token + 1 ELSE token

\* An exception in write reaches its caller: write has no handler.
WriteSwallows(w) == [w EXCEPT !.pc = "returned"]
OnWriteError(w) == [w EXCEPT !.pc = "raised"]

\* write is called; its first statement is create_account().
WriteCall(channel, content) ==
    /\ wr.pc = "idle"
    /\ writes > 0
    /\ writes' = writes - 1
    /\ wr' = [WrIdle EXCEPT !.pc = "create_account", !.channel = channel,
                            !.content = content,
                            !.before = Cardinality(PostPaths(channel))]
    /\ UNCHANGED <<pages, today, token, faults, net, rd, reads, parked, tui>>

\* create_account(): the createAccount request
WriteCreateAccount ==
    /\ wr.pc = "create_account"
    /\ \E resp \in PostResps({"notoken"}) :
        /\ CountFault(resp)
        /\ IF Request(resp) = "exception"
           THEN /\ wr' = OnWriteError(Logged(wr, "create_account", 0, resp, FALSE))
                /\ UNCHANGED token
           ELSE /\ wr' = [Logged(wr, "create_account", 0, resp, TRUE)
                             EXCEPT !.pc = "create_page"]
                /\ token' = create_account(resp)
    /\ UNCHANGED <<pages, today, net, rd, reads, writes, parked, tui>>

\* api.create_page(...): raises without a token, else the createPage request;
\* then print(page['url']) and return.
WriteCreatePage ==
    /\ wr.pc = "create_page"
    /\ IF token = NoToken
       THEN /\ wr' = OnWriteError(Logged(wr, "create_page", 0, "none", FALSE))
            /\ UNCHANGED <<pages, faults>>
       ELSE \E resp \in PostResps({}) :
            /\ CountFault(resp)
            /\ IF Request(resp) = "exception"
               THEN /\ wr' = OnWriteError(Logged(wr, "create_page", 0, resp, FALSE))
                    /\ UNCHANGED pages
               ELSE /\ wr' = [Logged(wr, "create_page", 0, resp, TRUE)
                                 EXCEPT !.pc = "returned"]
                    /\ pages' = Stored(PostTitle(wr.channel),
                                       NewPage(User, wr.content))
    /\ UNCHANGED <<today, token, net, rd, reads, writes, parked, tui>>

\* The caller goes on after write returned or raised.
WriteDone ==
    /\ wr.pc \in {"returned", "raised"}
    /\ wr' = WrIdle
    /\ UNCHANGED <<pages, today, token, faults, net, rd, reads, writes, parked, tui>>


-----------------------------------------------------------------------------
(* find_total_posts (core.py 33-60) *)

\* The locals of one call; log is the list of remote requests the call made.
RdIdle ==
    [pc |-> "idle", op |-> "none", channel |-> "", pageNo |-> 0, pageSize |-> 0,
     total |-> 0, low |-> 0, high |-> 0, left |-> 0, right |-> 0,
     start |-> 0, end |-> 0, i |-> 0, cached_posts |-> <<>>, posts |-> <<>>,
     out |-> <<>>, path |-> <<>>, log |-> <<>>]

Max(a, b) == IF a >= b THEN a ELSE b

\* valid(i): True when get_page returned, False when it raised anything.
validRaisesOnNetwork(resp) ==
    [raised |-> resp \in {"neterr", "malformed"}, val |-> Request(resp) = "result"]

valid(resp) == [raised |-> FALSE, val |-> Request(resp) = "result"]

\* readlist_stream 87-92, run when find_total_posts returned t:
\* the window of the page, and the empty page beyond the data.
WindowUnguarded(r, t) ==
    LET end == t - (r.pageNo - 1) * r.pageSize
        start == Max(1, end - r.pageSize + 1)
    IN  [r EXCEPT !.total = t, !.end = end, !.start = start, !.i = end,
                  !.pc = "read_cache"]

WindowNoClamp(r, t) ==
    LET end == t - (r.pageNo - 1) * r.pageSize
        start == end - r.pageSize + 1
    IN  [r EXCEPT !.total = t, !.end = end, !.start = start, !.i = end,
                  !.pc = IF end <= 0 THEN "done" ELSE "read_cache"]

Window(r, t) ==
    LET end == t - (r.pageNo - 1) * r.pageSize
        start == Max(1, end - r.pageSize + 1)
    IN  [r EXCEPT !.total = t, !.end = end, !.start = start, !.i = end,
                  !.pc = IF end <= 0 THEN "done" ELSE "read_cache"]

\* find_total_posts returns t: to its caller, or into readlist_stream.
Returned(r, t) ==
    IF r.op = "count" THEN [r EXCEPT !.total = t, !.pc = "done"] ELSE Window(r, t)

\* The state after the binary search loop's test: return left - 1 when the
\* window is empty.
ReturnsLeft(r) == IF r.left < r.right THEN r ELSE Returned(r, r.left)

Searched(r) == IF r.left < r.right THEN r ELSE Returned(r, r.left - 1)

\* 41-42: if not valid(1): return 0
FirstMissingSearches(r) == [r EXCEPT !.left = 2, !.right = guess, !.pc = "bsearch"]
FirstMissing(r) == Returned(r, 0)

\* 51-52: left, right = 2, guess
GuessMissingShort(r) == [r EXCEPT !.left = 2, !.right = guess - 1, !.pc = "bsearch"]
GuessMissing(r) == [r EXCEPT !.left = 2, !.right = guess, !.pc = "bsearch"]

\* 50: left, right = low + 1, high
HighMissingFromLow(r) == [r EXCEPT !.left = r.low, !.right = r.high, !.pc = "bsearch"]
HighMissingFromGuess(r) ==
    [r EXCEPT !.left = guess + 1, !.right = r.high, !.pc = "bsearch"]
HighMissing(r) == [r EXCEPT !.left = r.low + 1, !.right = r.high, !.pc = "bsearch"]

\* 55: mid = (left + right) // 2
MidScans(left, right) == left
Mid(left, right) == (left + right) \div 2

\* 56-59: left = mid + 1 when the probe said True, right = mid when False
GoRightStuck(r, mid) == [r EXCEPT !.left = mid]
GoRight(r, mid) == [r EXCEPT !.left = mid + 1]
GoLeft(r, mid) == [r EXCEPT !.right = mid]

\* What the store may answer to the probe of index i, and the call after the
\* answer: raised, or gone on as `ok` (the probe said True) or as `missing`.
ProbeResps(i) == GetResps(generate_url(PostType(rd.channel), i), {})

Asked(i, resp) == Logged(rd, "valid", i, resp, valid(resp).val)

Answered(i, resp, ok, missing) ==
    IF valid(resp).raised THEN [Asked(i, resp) EXCEPT !.pc = "raised"]
    ELSE IF valid(resp).val THEN ok ELSE missing

\* find_total_posts(channel) is called.
CountCall(channel) ==
    /\ rd.pc = "idle"
    /\ reads > 0
    /\ reads' = reads - 1
    /\ rd' = [RdIdle EXCEPT !.pc = "valid1", !.op = "count", !.channel = channel]
    /\ UNCHANGED <<pages, today, token, faults, net, wr, writes, parked, tui>>

\* 41-42: if not valid(1): return 0
ValidFirst ==
    /\ rd.pc = "valid1"
    /\ \E resp \in ProbeResps(1) :
        /\ CountFault(resp)
        /\ rd' = Answered(1, resp, [Asked(1, resp) EXCEPT !.pc = "validG"],
                          FirstMissing(Asked(1, resp)))
    /\ UNCHANGED <<pages, today, token, net, wr, writes, reads, parked, tui>>

\* 45-47, 51-52: the guess
ValidGuess ==
    /\ rd.pc = "validG"
    /\ \E resp \in ProbeResps(guess) :
        /\ CountFault(resp)
        /\ rd' = Answered(guess, resp,
                          [Asked(guess, resp) EXCEPT !.low = guess,
                                                     !.high = guess * 2,
                                                     !.pc = "validH"],
                          GuessMissing(Asked(guess, resp)))
    /\ UNCHANGED <<pages, today, token, net, wr, writes, reads, parked, tui>>

\* 48-50: while valid(high): low, high = high, high * 2
ValidHigh ==
    /\ rd.pc = "validH"
    /\ \E resp \in ProbeResps(rd.high) :
        /\ CountFault(resp)
        /\ rd' = Answered(rd.high, resp,
                          [Asked(rd.high, resp) EXCEPT !.low = rd.high,
                                                       !.high = rd.high * 2],
                          HighMissing(Asked(rd.high, resp)))
    /\ UNCHANGED <<pages, today, token, net, wr, writes, reads, parked, tui>>

\* 54-60: one turn of the binary search, and the return when it ends
ValidMid ==
    /\ rd.pc = "bsearch"
    /\ rd.left < rd.right
    /\ LET mid == Mid(rd.left, rd.right)
       IN  \E resp \in ProbeResps(mid) :
            /\ CountFault(resp)
            /\ rd' = Answered(mid, resp,
                              Searched(GoRight(Asked(mid, resp), mid)),
                              Searched(GoLeft(Asked(mid, resp), mid)))
    /\ UNCHANGED <<pages, today, token, net, wr, writes, reads, parked, tui>>

\* The caller takes the result (or the exception) of the call.
ReadDone ==
    /\ rd.pc \in {"done", "raised"}
    /\ rd' = RdIdle
    /\ UNCHANGED <<pages, today, token, faults, net, wr, writes, reads, parked, tui>>

PostPage(text) == NewPage(User, text)

\* The store with a post of channel c at every index of S, written today;
\* neighbouring posts differ in their texts.
StoreOf(c, S) ==
    [p \in {PathOf(PostTitle(c), date, k) : k \in S} |->
        PostPage(IF Len(p) = 4 THEN "x"
                 ELSE IF p[5] % 3 = 0 THEN "z"
                 ELSE IF p[5] % 3 = 1 THEN "x" ELSE "y")]

\* ChatTUI.__init__ (rnw.py 12-21); load is the number of calls of
\* load_posts_stream so far, and each displayed post is kept with the load
\* of the worker that appended it and its place k in that worker's stream.
ChatTUI ==
    [channel |-> "", current_page |-> 1, posts |-> <<>>, loading |-> FALSE,
     stream_complete |-> FALSE, load |-> 0]

-----------------------------------------------------------------------------
(* The count alone, on a store that holds posts 1..n but one *)

InitCount ==
    /\ today = Calendar[1]
    /\ parked = <<>>
    /\ tui = ChatTUI
    /\ \E n \in 0..MaxN : \E h \in 0..n :
           pages = StoreOf("a", (1..n) \ {h})
    /\ token = NoToken
    /\ faults = MaxFaults
    /\ net = {"neterr", "malformed"}
    /\ wr = WrIdle
    /\ rd = RdIdle
    /\ writes = 0
    /\ reads = MaxReads

NextCount ==
    \/ CountCall("a")
    \/ ValidFirst
    \/ ValidGuess
    \/ ValidHigh
    \/ ValidMid
    \/ ReadDone

SpecCount == InitCount /\ [][NextCount]_vars

\* A call that has begun goes on: each probe blocks until the store answers.
CountStep == ValidFirst \/ ValidGuess \/ ValidHigh \/ ValidMid

SpecCountFair == SpecCount /\ WF_vars(CountStep)

-----------------------------------------------------------------------------
(* read_cache, save_cache, readlist_stream (core.py 62-133) *)

\* read_cache 67-74: the JSON of the first field that parses, else []
read_cache(page) ==
    IF page.content # <<>> /\ IsJson(page.content[1]) THEN Loads(page.content[1])
    ELSE IF page.description # "" /\ IsJson(page.description)
         THEN Loads(page.description)
         ELSE <<>>

\* readlist_stream 111-114
post_data(post) == [name |-> post.author_name, content |-> post.description]

\* 107, 128: the next index of the loop, or the end of the loop
AdvanceSavesAtOnce(r) ==
    [r EXCEPT !.i = r.i - 1,
              !.pc = IF r.posts # <<>> THEN "save_account"
                     ELSE IF r.i - 1 >= r.start THEN "fetch" ELSE "done"]
Advance(r) ==
    [r EXCEPT !.i = r.i - 1,
              !.pc = IF r.i - 1 >= r.start THEN "fetch"
                     ELSE IF r.posts # <<>> THEN "save_account" ELSE "done"]

\* 97-101: if cached_posts: yield each of them and return
CacheHitRefetches(r, cached) == [r EXCEPT !.cached_posts = cached, !.pc = "fetch"]
OnCacheHit(r, cached) ==
    [r EXCEPT !.cached_posts = cached, !.out = <<cached[1]>>, !.pc = "cached"]

\* 102-103: except: pass, on to the slow path
OnCacheError(r) == [r EXCEPT !.pc = "fetch"]

\* 123-125: except Exception: continue
FetchErrorAborts(r) == [r EXCEPT !.pc = IF r.posts # <<>> THEN "save_account" ELSE "done"]
OnFetchError(r) == Advance(r)

\* 131-133: except Exception: pass
SaveErrorPropagates(r) == [r EXCEPT !.pc = "raised"]
OnSaveError(r) == [r EXCEPT !.pc = "done"]

\* 115-118: posts.append(post_data); yield post_data
EmitOldestFirst(r, d) == [r EXCEPT !.posts = <<d>> \o @, !.out = <<d>> \o @]
Emit(r, d) == [r EXCEPT !.posts = Append(@, d), !.out = Append(@, d)]

\* readlist_stream(channel, pageNo, pageSize) is started: find_total_posts first.
FeedCall(channel, pageNo, pageSize) ==
    /\ rd.pc = "idle"
    /\ reads > 0
    /\ reads' = reads - 1
    /\ rd' = [RdIdle EXCEPT !.pc = "valid1", !.op = "feed", !.channel = channel,
                            !.pageNo = pageNo, !.pageSize = pageSize]
    /\ UNCHANGED <<pages, today, token, faults, net, wr, writes, parked, tui>>

\* 95-103: read_cache(channel, start, end); a hit yields its first post
ReadCache ==
    /\ rd.pc = "read_cache"
    /\ LET url == generate_url(ListType(rd.channel, rd.start, rd.end), 1)
       IN  \E resp \in GetResps(url, {"junk"}) :
            /\ CountFault(resp)
            /\ IF Request(resp) = "exception"
               THEN rd' = OnCacheError(Logged(rd, "read_cache", 1, resp, FALSE))
               ELSE LET cached == read_cache(GotPage(url, resp))
                        r == Logged(rd, "read_cache", 1, resp, cached # <<>>)
                    IN  rd' = IF cached # <<>>
                              THEN OnCacheHit(r, cached)
                              ELSE [r EXCEPT !.pc = "fetch"]
    /\ UNCHANGED <<pages, today, token, net, wr, writes, reads, parked, tui>>

\* 99-101: the next cached post, or the return after the last
YieldCached ==
    /\ rd.pc = "cached"
    /\ rd' = IF Len(rd.out) < Len(rd.cached_posts)
             THEN [rd EXCEPT !.out = Append(@, rd.cached_posts[Len(rd.out) + 1])]
             ELSE [rd EXCEPT !.pc = "done"]
    /\ UNCHANGED <<pages, today, token, faults, net, wr, writes, reads, parked, tui>>

\* 107-125: read(channel, i); a readable post is buffered and yielded
Fetch ==
    /\ rd.pc = "fetch"
    /\ LET url == generate_url(PostType(rd.channel), rd.i)
       IN  \E resp \in GetResps(url, {"nodesc"}) :
            /\ CountFault(resp)
            /\ IF Request(resp) = "exception"
               THEN rd' = OnFetchError(Logged(rd, "read", rd.i, resp, FALSE))
               ELSE LET post == GotPage(url, resp)
                        got == post.description # ""
                        r == Logged(rd, "read", rd.i, resp, got)
                    IN  rd' = IF got THEN Advance(Emit(r, post_data(post)))
                                     ELSE Advance(r)
    /\ UNCHANGED <<pages, today, token, net, wr, writes, reads, parked, tui>>

\* save_cache 77: create_account()
SaveCreateAccount ==
    /\ rd.pc = "save_account"
    /\ \E resp \in PostResps({"notoken"}) :
        /\ CountFault(resp)
        /\ IF Request(resp) = "exception"
           THEN /\ rd' = OnSaveError(Logged(rd, "create_account", 0, resp, FALSE))
                /\ UNCHANGED token
           ELSE /\ rd' = [Logged(rd, "create_account", 0, resp, TRUE)
                             EXCEPT !.pc = "save_page"]
                /\ token' = create_account(resp)
    /\ UNCHANGED <<pages, today, net, wr, writes, reads, parked, tui>>

\* save_cache 78-83: api.create_page(title, [json.dumps(posts)])
SaveCreatePage ==
    /\ rd.pc = "save_page"
    /\ LET title == ListTitle(rd.channel, rd.start, rd.end)
       IN  IF token = NoToken
           THEN /\ rd' = OnSaveError(Logged(rd, "create_page", 0, "none", FALSE))
                /\ UNCHANGED <<pages, faults>>
           ELSE \E resp \in PostResps({}) :
                /\ CountFault(resp)
                /\ IF Request(resp) = "exception"
                   THEN /\ rd' = OnSaveError(Logged(rd, "create_page", 0, resp, FALSE))
                        /\ UNCHANGED pages
                   ELSE /\ rd' = [Logged(rd, "create_page", 0, resp, TRUE)
                                     EXCEPT !.pc = "done", !.path = NewPath(title)]
                        /\ pages' = Stored(title, NewPage(User, Dumps(rd.posts)))
    /\ UNCHANGED <<today, token, net, wr, writes, reads, parked, tui>>

-----------------------------------------------------------------------------
(* The program: writes and feed reads against one store *)

\* The posts of channel "a" already in the store, and the calls of write to
\* come: a short channel that is written to, and a long one that is only read.
Starts == {[n |-> 3, w |-> MaxWrites], [n |-> 16, w |-> 0]}

\* The list-cache page an earlier read of (channel c, indices e-1..e) left.
WarmCache(store, c, e) ==
    PathOf(ListTitle(c, e - 1, e), date, 1) :>
        NewPage(User, Dumps(<<post_data(store[PathOf(PostTitle(c), date, e)]),
                              post_data(store[PathOf(PostTitle(c), date, e - 1)])>>))

\* The store holds the posts of channel "a", and may hold the cache of its
\* newest two.
Init ==
    /\ today = Calendar[1]
    /\ parked = <<>>
    /\ tui = ChatTUI
    /\ \E s \in Starts, warm \in BOOLEAN :
           /\ pages = IF warm THEN WarmCache(StoreOf("a", 1..s.n), "a", s.n)
                                      @@ StoreOf("a", 1..s.n)
                              ELSE StoreOf("a", 1..s.n)
           /\ writes = s.w
    /\ token = NoToken
    /\ faults = MaxFaults
    /\ net = {"neterr", "nodesc", "junk"}
    /\ wr = WrIdle
    /\ rd = RdIdle
    /\ reads = MaxReads

Next ==
    \/ \E c \in Channels, t \in NewTexts : WriteCall(c, t)
    \/ WriteCreateAccount
    \/ WriteCreatePage
    \/ WriteDone
    \/ \E c \in Channels, p \in PageNos, s \in PageSizes : FeedCall(c, p, s)
    \/ ValidFirst
    \/ ValidGuess
    \/ ValidHigh
    \/ ValidMid
    \/ ReadCache
    \/ YieldCached
    \/ Fetch
    \/ SaveCreateAccount
    \/ SaveCreatePage
    \/ ReadDone

Spec == Init /\ [][Next]_vars

-----------------------------------------------------------------------------
(* Repeated reads of one channel, with nothing cached at first *)

CacheFaults == 2    \* remote requests that may fail in one behaviour
CacheReads == 2     \* calls of readlist_stream in one behaviour

\* A page at the address of the entry (c, s..e) that holds no JSON.
Malformed(c, s, e) == PathOf(ListTitle(c, s, e), date, 1) :> JunkPage

\* The store holds three posts of channel "a"; the entry of its page of ten
\* is absent or malformed.
InitCache ==
    /\ today = Calendar[1]
    /\ parked = <<>>
    /\ tui = ChatTUI
    /\ \E entry \in {"absent", "malformed"} :
           pages = IF entry = "malformed"
                   THEN Malformed("a", 1, 3) @@ StoreOf("a", 1..3)
                   ELSE StoreOf("a", 1..3)
    /\ token = NoToken
    /\ faults = CacheFaults
    /\ net = {"neterr"}
    /\ wr = WrIdle
    /\ rd = RdIdle
    /\ writes = 0
    /\ reads = CacheReads

NextCache ==
    \/ \E p \in PageNos, s \in PageSizes : FeedCall("a", p, s)
    \/ ValidFirst
    \/ ValidGuess
    \/ ValidMid
    \/ ReadCache
    \/ YieldCached
    \/ Fetch
    \/ SaveCreateAccount
    \/ SaveCreatePage
    \/ ReadDone

SpecCache == InitCache /\ [][NextCache]_vars

-----------------------------------------------------------------------------
(* The pages of a channel, for several totals and page sizes *)

WindowTotals == 0..7
WindowPageNos == 1..4
WindowSizes == {1, 2, 3}

\* The store holds n posts of channel "a", and may hold the cache of its
\* newest two; no request fails.
InitWindow ==
    /\ today = Calendar[1]
    /\ parked = <<>>
    /\ tui = ChatTUI
    /\ \E n \in WindowTotals, warm \in BOOLEAN :
           pages = IF warm /\ n >= 2
                   THEN WarmCache(StoreOf("a", 1..n), "a", n) @@ StoreOf("a", 1..n)
                   ELSE StoreOf("a", 1..n)
    /\ token = NoToken
    /\ faults = 0
    /\ net = {}
    /\ wr = WrIdle
    /\ rd = RdIdle
    /\ writes = 0
    /\ reads = MaxReads

NextWindow ==
    \/ \E p \in WindowPageNos, s \in WindowSizes : FeedCall("a", p, s)
    \/ ValidFirst
    \/ ValidGuess
    \/ ValidMid
    \/ ReadCache
    \/ YieldCached
    \/ Fetch
    \/ SaveCreateAccount
    \/ SaveCreatePage
    \/ ReadDone

SpecWindow == InitWindow /\ [][NextWindow]_vars

-----------------------------------------------------------------------------
(* preload_posts (core.py 140-157): feed reads on threads of their own *)

PreloadPosts == 14  \* posts of channel "a" in the store
PreloadFaults == 2  \* remote requests that may fail in one behaviour

\* 146: list(readlist_stream(channel, page_no, 10)), about to start
preload_worker(channel, page_no) ==
    [RdIdle EXCEPT !.pc = "valid1", !.op = "feed", !.channel = channel,
                   !.pageNo = page_no, !.pageSize = 10]

\* 150-157: a thread is started for every page of start_page..end_page
PreloadCall(channel, start_page, end_page) ==
    /\ rd.pc = "idle" /\ parked = <<>>
    /\ reads > 0
    /\ reads' = reads - 1
    /\ rd' = preload_worker(channel, start_page)
    /\ parked' = [k \in 1..(end_page - start_page) |->
                     preload_worker(channel, start_page + k)]
    /\ UNCHANGED <<pages, today, token, faults, net, wr, writes, tui>>

\* The interpreter passes from the running thread to another one.
Switch ==
    /\ \E k \in 1..Len(parked) :
          /\ parked[k].pc # "idle"
          /\ rd' = parked[k]
          /\ parked' = [parked EXCEPT ![k] = rd]
    /\ UNCHANGED <<pages, today, token, faults, net, wr, writes, reads, tui>>

InitPreload ==
    /\ today = Calendar[1]
    /\ parked = <<>>
    /\ tui = ChatTUI
    /\ pages = StoreOf("a", 1..PreloadPosts)
    /\ token = NoToken
    /\ faults = PreloadFaults
    /\ net = {"neterr"}
    /\ wr = WrIdle
    /\ rd = RdIdle
    /\ writes = 0
    /\ reads = 1

NextPreload ==
    \/ PreloadCall("a", 1, 2)
    \/ Switch
    \/ ValidFirst
    \/ ValidGuess
    \/ ValidMid
    \/ ReadCache
    \/ YieldCached
    \/ Fetch
    \/ SaveCreateAccount
    \/ SaveCreatePage
    \/ ReadDone

SpecPreload == InitPreload /\ [][NextPreload]_vars

-----------------------------------------------------------------------------
(* One caller that writes a journal and reads it, over several dates *)

JournalWrites == 3  \* calls of write in one behaviour
JournalReads == 2   \* calls of find_total_posts / readlist_stream in one behaviour
JournalFaults == 1  \* remote requests that may fail in one behaviour

\* The contents the caller writes, in this order.
Journal == <<"x", "y", "z", "u", "v">>

\* The position of a content in the journal.
Rank(text) == CHOOSE k \in 1..Len(Journal) : Journal[k] = text

\* The clock passes midnight, or more, between two calls.
DateAdvances ==
    /\ wr.pc = "idle" /\ rd.pc = "idle"
    /\ \E k \in 1..Len(Calendar) : \E j \in (k + 1)..Len(Calendar) :
          /\ today = Calendar[k]
          /\ today' = Calendar[j]
    /\ UNCHANGED <<pages, token, faults, net, wr, rd, writes, reads, parked, tui>>

InitJournal ==
    /\ today = Calendar[1]
    /\ parked = <<>>
    /\ tui = ChatTUI
    /\ pages = << >>
    /\ token = NoToken
    /\ faults = JournalFaults
    /\ net = {"neterr"}
    /\ wr = WrIdle
    /\ rd = RdIdle
    /\ writes = JournalWrites
    /\ reads = JournalReads

\* The caller makes one call at a time (as core.py 160-166 does).
NextJournal ==
    \/ rd.pc = "idle" /\ WriteCall("", Journal[JournalWrites - writes + 1])
    \/ WriteCreateAccount
    \/ WriteCreatePage
    \/ WriteDone
    \/ wr.pc = "idle" /\ CountCall("")
    \/ wr.pc = "idle" /\ FeedCall("", 1, 10)
    \/ ValidFirst
    \/ ValidGuess
    \/ ValidMid
    \/ ReadCache
    \/ YieldCached
    \/ Fetch
    \/ SaveCreateAccount
    \/ SaveCreatePage
    \/ ReadDone
    \/ DateAdvances

SpecJournal == InitJournal /\ [][NextJournal]_vars

-----------------------------------------------------------------------------
(* What the claims speak of *)

\* The index of a post path: title-date is index 1, title-date-k is index k.
IndexOf(path) == IF Len(path) = 5 THEN path[5] ELSE 1

\* The indices of the channel's posts that exist today.
Existing(channel) == {IndexOf(p) : p \in {q \in PostPaths(channel) : q[4] = date}}

Dense(channel) == \E n \in 0..Cardinality(DOMAIN pages) : Existing(channel) = 1..n

LogOf(r, op) == SelectSeq(r.log, LAMBDA e : e.op = op)

\* Every probe of the call was answered as the store stood.
Truthful(r) == \A k \in 1..Len(r.log) : r.log[k].resp \in {"ok", "notfound"}

\* The indices the call probed, in order.
Probed(r) == [k \in 1..Len(LogOf(r, "valid")) |-> LogOf(r, "valid")[k].i]

CountDone == rd.op = "count" /\ rd.pc = "done"

-----------------------------------------------------------------------------
(* Claims *)

\* C1: on a channel whose posts are exactly 1..n, with every probe answered
\* truthfully, find_total_posts returns n.
C1_CountOfDense ==
    (CountDone /\ Dense(rd.channel) /\ Truthful(rd))
        => rd.total = Cardinality(Existing(rd.channel))

\* C1 witness: a dense channel of at least 32 posts has been counted, which
\* takes two doublings.
C1_Witness ==
    /\ CountDone /\ Dense(rd.channel) /\ Truthful(rd)
    /\ rd.total >= 32
    /\ rd.total = Cardinality(Existing(rd.channel))

\* C7: the probe answers true exactly when the fetch succeeded and false on
\* not-found, network error and malformed response alike; it never raises, so
\* find_total_posts ends with an integer >= 0.
C7_ProbeAbsorbsFailures ==
    rd.op = "count" =>
        /\ \A k \in 1..Len(rd.log) :
              /\ rd.log[k].op = "valid"
              /\ rd.log[k].ans = (rd.log[k].resp = "ok")
        /\ rd.pc # "raised"
        /\ rd.pc = "done" => rd.total \in Nat

\* C7 witness: a count has ended after a probe of an existing post failed
\* with a malformed response.
C7_Witness ==
    /\ CountDone
    /\ \E k \in 1..Len(rd.log) :
          /\ rd.log[k].resp = "malformed"
          /\ rd.log[k].i \in Existing(rd.channel)
          /\ ~rd.log[k].ans

\* C9: when the probe of index 1 answers false, find_total_posts returns 0
\* after that one probe, whatever higher indices exist.
C9_EmptyAfterOneProbe ==
    (rd.op = "count" /\ Len(rd.log) >= 1 /\ ~rd.log[1].ans)
        => /\ rd.pc = "done"
           /\ rd.total = 0
           /\ Len(rd.log) = 1
           /\ rd.log[1].i = 1

\* C9 witness: index 1 is missing while higher indices exist, and the count
\* has returned.
C9_Witness ==
    /\ CountDone
    /\ 1 \notin Existing(rd.channel)
    /\ 16 \in Existing(rd.channel)
    /\ rd.total = 0

\* The binary search has its first window: no probe of the search was made.
AtFirstWindow(r) ==
    /\ r.pc = "bsearch"
    /\ r.log[Len(r.log)].at # "bsearch"

Pow2(k) == IF k <= 0 THEN 1 ELSE 2 ^ k

\* C10: if exists(16) is false the search window is [2, 16); if it is true,
\* high starts at 32 and doubles while exists(high) holds, and the window is
\* [low + 1, high) with high = 2 * low, low probed existing and high probed
\* missing.  For n = 16 the probes are 1, 16, 32, 24, 20, 18, 17 and the
\* result is 16.
C10_ExponentialPhase ==
    /\ (rd.op = "count" /\ AtFirstWindow(rd)) =>
          LET n == Len(rd.log)
          IN  /\ Probed(rd)[1] = 1 /\ rd.log[1].ans
              /\ Probed(rd)[2] = guess
              /\ ~rd.log[2].ans => (n = 2 /\ rd.left = 2 /\ rd.right = guess)
              /\ rd.log[2].ans =>
                    /\ n >= 3
                    /\ \A k \in 3..n : /\ Probed(rd)[k] = guess * Pow2(k - 2)
                                       /\ rd.log[k].ans = (k < n)
                    /\ rd.high = 2 * rd.low
                    /\ rd.left = rd.low + 1 /\ rd.right = rd.high
                    /\ Probed(rd)[n - 1] = rd.low /\ rd.log[n - 1].ans
                    /\ Probed(rd)[n] = rd.high /\ ~rd.log[n].ans
    /\ (CountDone /\ Truthful(rd) /\ Existing(rd.channel) = 1..guess) =>
          /\ Probed(rd) = <<1, 16, 32, 24, 20, 18, 17>>
          /\ rd.total = 16

\* C10 witness: the count of a dense channel of 16 posts has ended.
C10_Witness ==
    /\ CountDone /\ Truthful(rd)
    /\ Existing(rd.channel) = 1..guess
    /\ rd.total = 16

\* floor(log2(n)) for n >= 1
RECURSIVE Log2(_)
Log2(n) == IF n <= 1 THEN 0 ELSE 1 + Log2(n \div 2)

\* C11: on a channel of n dense posts find_total_posts makes at most
\* 2 * floor(log2(max(n, 16))) + 2 probes, whatever the probes answer.
C11_LogarithmicProbes ==
    (CountDone /\ Dense(rd.channel)) =>
        Len(LogOf(rd, "valid"))
            <= 2 * Log2(Max(Cardinality(Existing(rd.channel)), guess)) + 2

\* C11 witness: a dense channel of at least 32 posts has been counted
\* truthfully with fewer than a third as many probes as posts.
C11_Witness ==
    /\ CountDone /\ Dense(rd.channel) /\ Truthful(rd)
    /\ Cardinality(Existing(rd.channel)) >= 32
    /\ rd.total = Cardinality(Existing(rd.channel))
    /\ 3 * Len(LogOf(rd, "valid")) < rd.total

\* The number of indices 1, 2, ... that exist before the first missing one.
Prefix(channel) ==
    Cardinality({k \in Existing(channel) : \A j \in 1..k : j \in Existing(channel)})

-----------------------------------------------------------------------------
(* Claims about the feed *)

FeedDone == rd.op = "feed" /\ rd.pc = "done"

\* The indices b, b - 1, ..., a.
Descending(a, b) == [k \in 1..(b - a + 1) |-> b - k + 1]

\* The post the store holds at index i of the channel, as the feed shows it.
PostAt(channel, i) == post_data(pages[generate_url(PostType(channel), i)])

PostsAt(channel, idx) == [k \in 1..Len(idx) |-> PostAt(channel, idx[k])]

\* The call asked for its cache entry and got none.
Missed(r) == /\ LogOf(r, "read_cache") # <<>>
             /\ ~LogOf(r, "read_cache")[1].ans

\* The indices the call fetched, and those of them that gave a post.
Fetched(r) == [k \in 1..Len(LogOf(r, "read")) |-> LogOf(r, "read")[k].i]
Dropped(r) == {k \in 1..Len(LogOf(r, "read")) : ~LogOf(r, "read")[k].ans}
Kept(r) ==
    LET got == SelectSeq(LogOf(r, "read"), LAMBDA e : e.ans)
    IN  [k \in 1..Len(got) |-> got[k].i]

\* C2: on a cache miss with every fetch giving a readable post, the feed is
\* the posts at end, end - 1, ..., start, where end = T - (p - 1) * s and
\* start = max(1, end - s + 1).
C2_FeedNewestFirst ==
    (FeedDone /\ Missed(rd) /\ Dropped(rd) = {}) =>
        LET end == rd.total - (rd.pageNo - 1) * rd.pageSize
            start == IF end - rd.pageSize + 1 >= 1 THEN end - rd.pageSize + 1 ELSE 1
        IN  /\ Fetched(rd) = Descending(start, end)
            /\ rd.out = PostsAt(rd.channel, Descending(start, end))

\* C2 witness: page 1 of size 10 of a channel of 3 posts has been read from
\* the store and shows posts 3, 2, 1.
C2_Witness ==
    /\ FeedDone /\ Missed(rd) /\ Dropped(rd) = {}
    /\ Existing(rd.channel) = 1..3
    /\ rd.total = 3 /\ rd.pageNo = 1 /\ rd.pageSize = 10
    /\ rd.out = PostsAt(rd.channel, <<3, 2, 1>>)
    /\ rd.out[1] # rd.out[3]

\* C3: on the slow path every index of the window is visited, end down to
\* start; an index whose fetch fails or gives no description is dropped and
\* every other index is in the feed, in that order.
C3_FailedIndexOnlyDropped ==
    (FeedDone /\ Missed(rd)) =>
        /\ Fetched(rd) = Descending(rd.start, rd.end)
        /\ rd.out = PostsAt(rd.channel, Kept(rd))
        /\ Len(rd.out) = (rd.end - rd.start + 1) - Cardinality(Dropped(rd))

\* C3 witness: one fetch of a window of ten failed before the last index and
\* the feed holds the other nine posts.
C3_Witness ==
    /\ FeedDone /\ Missed(rd)
    /\ rd.end - rd.start + 1 = 10
    /\ \E k \in 1..9 : Dropped(rd) = {k}
    /\ Len(rd.out) = 9
    /\ rd.out = PostsAt(rd.channel, Kept(rd))

\* The write met a credential failure: create_account failed, or create_page
\* was reached without a token or refused by the store.
AuthFailed(w) ==
    \E k \in 1..Len(w.log) :
        \/ w.log[k].op = "create_account" /\ ~w.log[k].ans
        \/ w.log[k].op = "create_page" /\ w.log[k].resp \in {"none", "apierr"}

\* C5: a credential failure during write reaches the caller as an error and
\* no post page is created; write returns normally only with the post page
\* created.
C5_WriteFailsLoudly ==
    /\ AuthFailed(wr) =>
          /\ wr.pc = "raised"
          /\ Cardinality(PostPaths(wr.channel)) = wr.before
    /\ wr.pc = "returned" =>
          /\ Cardinality(PostPaths(wr.channel)) = wr.before + 1
          /\ \E p \in PostPaths(wr.channel) : pages[p] = NewPage(User, wr.content)

\* C5 witness: create_account gave no token, create_page raised for want of
\* one, and write has raised.
C5_Witness ==
    /\ wr.pc = "raised"
    /\ Len(wr.log) = 2
    /\ wr.log[2].op = "create_page" /\ wr.log[2].resp = "none"

\* A step of a running feed read.
FeedStep ==
    \/ ValidFirst
    \/ ValidGuess
    \/ ValidHigh
    \/ ValidMid
    \/ ReadCache
    \/ YieldCached
    \/ Fetch
    \/ SaveCreateAccount
    \/ SaveCreatePage

\* C6: a feed read never raises to its caller, whichever requests fail; until
\* it is done it has a step to take.
C6_FeedNeverRaises ==
    rd.op = "feed" =>
        /\ rd.pc # "raised"
        /\ rd.pc # "done" => ENABLED FeedStep

\* C6 witness: the credential request of the cache write failed and the read
\* completed with its posts.
C6_Witness ==
    /\ FeedDone
    /\ rd.out # <<>>
    /\ \E k \in 1..Len(rd.log) : rd.log[k].op = "create_account" /\ ~rd.log[k].ans

\* C8: when total - (pageNo - 1) * pageSize <= 0 the feed is empty and the
\* call makes no request after the probes of the count.
C8_PageBeyondData ==
    (/\ rd.op = "feed"
     /\ rd.pc \in {"read_cache", "cached", "fetch", "save_account", "save_page", "done"}
     /\ rd.total - (rd.pageNo - 1) * rd.pageSize <= 0) =>
        /\ rd.pc = "done"
        /\ rd.out = <<>>
        /\ \A k \in 1..Len(rd.log) : rd.log[k].op = "valid"

\* C8 witness: page 2 of size 10 of a channel of 3 posts has been read.
C8_Witness ==
    /\ FeedDone
    /\ rd.total = 3 /\ rd.pageNo = 2 /\ rd.pageSize = 10
    /\ rd.out = <<>>

\* The call asked for its cache entry and got a non-empty list.
Hit(r) == /\ LogOf(r, "read_cache") # <<>>
          /\ LogOf(r, "read_cache")[1].ans

\* What read_cache(channel, start, end) returns when its request succeeds.
CacheAt(channel, start, end) ==
    LET url == generate_url(ListType(channel, start, end), 1)
    IN  IF url \in DOMAIN pages THEN read_cache(pages[url]) ELSE <<>>

Saved(r) == \E k \in 1..Len(r.log) : r.log[k].op = "create_page" /\ r.log[k].ans

\* C4: after save_cache(c, start, end, posts) succeeded, read_cache(c, start,
\* end) returns the posts written, and read_cache of any other key does not
\* read that entry.
C4_CacheRoundTrip ==
    (FeedDone /\ Saved(rd)) =>
        /\ CacheAt(rd.channel, rd.start, rd.end) = rd.posts
        /\ \A c \in Channels, s \in 1..rd.end, e \in 1..(rd.end + 1) :
              <<c, s, e>> # <<rd.channel, rd.start, rd.end>>
                  => generate_url(ListType(c, s, e), 1) # rd.path

\* C13: when read_cache returned a non-empty list, every step of the feed read
\* leaves the store and the credential unchanged, the call makes no request
\* but its probes and the cache read, and it yields the stored list in stored
\* order and nothing else.
C13_FastPath ==
    [][(rd'.op = "feed" /\ Hit(rd') /\ rd' # rd) =>
          /\ pages' = pages /\ token' = token
          /\ \A k \in 1..Len(rd'.log) : rd'.log[k].op \in {"valid", "read_cache"}
          /\ rd'.cached_posts = CacheAt(rd'.channel, rd'.start, rd'.end)
          /\ rd'.posts = <<>>
          /\ rd'.out = SubSeq(rd'.cached_posts, 1, Len(rd'.out))
          /\ rd'.pc \in {"cached", "done"}
          /\ rd'.pc = "done" => rd'.out = rd'.cached_posts]_vars

\* C13 witness: a read was served from an entry that lacks a post of its
\* window, and returned the entry as it is.
C13_Witness ==
    /\ FeedDone /\ Hit(rd)
    /\ rd.out = rd.cached_posts
    /\ Len(rd.out) < rd.end - rd.start + 1
    /\ rd.out # PostsAt(rd.channel, Descending(rd.start, rd.end))

\* The steps of find_total_posts, inside a feed read or alone.
Counting(r) == r.pc \in {"valid1", "validG", "validH", "bsearch"}

\* C16: no step edits or deletes a page; a step of find_total_posts creates
\* no page, and a step of a feed read creates no page but a list-cache page.
C16_PostsImmutable ==
    [][/\ \A p \in DOMAIN pages : p \in DOMAIN pages' /\ pages'[p] = pages[p]
       /\ (rd' # rd /\ Counting(rd)) => pages' = pages
       /\ rd' # rd => \A p \in DOMAIN pages' \ DOMAIN pages : p[2] = "list"
       /\ wr' # wr => \A p \in DOMAIN pages' \ DOMAIN pages : p[2] = "post"]_vars

\* C16 witness: a write has created a post and a feed read a cache page, next
\* to the posts the channel had.
C16_Witness ==
    /\ wr.pc = "returned" /\ wr.channel = "a"
    /\ FeedDone /\ Saved(rd) /\ rd.channel = "a"
    /\ Cardinality(PostPaths("a")) = 4
    /\ rd.path \in DOMAIN pages

\* The calls of save_cache the read made: each begins with create_account().
SaveCalls(r) == Len(LogOf(r, "create_account"))

\* The requests of the call before its first request for the cache write.
BeforeSave(r) ==
    LET first == CHOOSE k \in 1..Len(r.log) :
                    /\ r.log[k].op \in {"create_account", "create_page"}
                    /\ \A j \in 1..(k - 1) :
                          r.log[j].op \notin {"create_account", "create_page"}
    IN  [r EXCEPT !.log = SubSeq(r.log, 1, first - 1)]

\* The cache write is made at most once, after the loop visited end down to
\* start, and what it stores is the posts emitted, in emission order.
SavesAfterLoop(r) ==
    /\ SaveCalls(r) <= 1
    /\ Len(LogOf(r, "create_page")) <= 1
    /\ SaveCalls(r) = 1 =>
          /\ Fetched(BeforeSave(r)) = Descending(r.start, r.end)
          /\ Fetched(r) = Fetched(BeforeSave(r))
          /\ r.posts = r.out /\ r.out # <<>>
          /\ r.out = PostsAt(r.channel, Kept(BeforeSave(r)))
    /\ Saved(r) => read_cache(pages[r.path]) = r.out

\* C18 as stated: every slow-path read writes the cache exactly once, after
\* the loop, from the posts emitted.
C18_CacheWriteOnce ==
    rd.op = "feed" =>
        /\ SavesAfterLoop(rd)
        /\ (FeedDone /\ Missed(rd)) => SaveCalls(rd) = 1

\* C18 as amended: a slow-path read writes the cache at most once, after the
\* loop, from the posts emitted; it writes exactly once when it emitted a
\* post and not at all when it emitted none.
C18_CacheWriteOnceIfAny ==
    rd.op = "feed" =>
        /\ SavesAfterLoop(rd)
        /\ (FeedDone /\ Missed(rd)) => (SaveCalls(rd) = 1 <=> rd.out # <<>>)

\* C18 witness: a slow-path read emitted two posts or more, one fetch having
\* failed, and then stored what it emitted.
C18_Witness ==
    /\ FeedDone /\ Missed(rd) /\ Saved(rd)
    /\ Len(rd.out) >= 2
    /\ Dropped(rd) # {}
    /\ read_cache(pages[rd.path]) = rd.out

\* The lists that cache writes stored for the window of the call.
Regenerated(r) ==
    {read_cache(pages[p]) :
        p \in {q \in DOMAIN pages :
                 /\ Len(q) >= 6
                 /\ SubSeq(q, 1, 5) = ListTitle(r.channel, r.start, r.end)
                 /\ q[6] = date
                 /\ read_cache(pages[q]) # <<>>}}

\* C17: once a slow-path read has written the cache for a window, a later
\* read of the same window whose cache request succeeds is served from the
\* cache and returns the list that was written.
C17_SelfHealing ==
    (/\ rd.op = "feed" /\ ~Saved(rd)
     /\ LogOf(rd, "read_cache") # <<>>
     /\ LogOf(rd, "read_cache")[1].resp = "ok"
     /\ Regenerated(rd) # {}) =>
        /\ Hit(rd)
        /\ rd.cached_posts \in Regenerated(rd)
        /\ Fetched(rd) = <<>>

\* The post pages of the channel and the contents they hold.
Written(channel) == {pages[p].description : p \in PostPaths(channel)}

\* The requests of the call that read the store were answered as it stood.
TruthfulReads(r) ==
    \A k \in 1..Len(r.log) :
        r.log[k].op \in {"valid", "read", "read_cache"}
            => r.log[k].resp \in {"ok", "notfound"}

\* C19: the caller wrote the journal's contents in order to an empty channel
\* within the first date and k writes succeeded; then find_total_posts
\* returns k, and page 1 of size >= k, read from the store, is the k
\* contents written, the latest first.
C19_WriteReadAgree ==
    (/\ rd.pc = "done" /\ TruthfulReads(rd) /\ today = Calendar[1]) =>
        LET k == Cardinality(PostPaths(rd.channel))
        IN  /\ rd.total = k
            /\ (rd.op = "feed" /\ Missed(rd) /\ rd.pageNo = 1 /\ rd.pageSize >= k) =>
                  /\ Len(rd.out) = k
                  /\ {rd.out[i].content : i \in 1..k} = Written(rd.channel)
                  /\ \A i \in 1..k : \A j \in (i + 1)..k :
                        Rank(rd.out[i].content) > Rank(rd.out[j].content)

\* C19 witness: three writes succeeded and the feed read shows z, y, x.
C19_Witness ==
    /\ FeedDone /\ TruthfulReads(rd) /\ Missed(rd) /\ today = Calendar[1]
    /\ Cardinality(PostPaths(rd.channel)) = 3
    /\ rd.total = 3
    /\ [i \in 1..3 |-> rd.out[i].content] = <<"z", "y", "x">>

\* The posts of the channel written on today's date, and those written on a
\* date with today's month and day.
PostsOfDate(channel) == {p \in PostPaths(channel) : pages[p].written = today}
PostsOfDay(channel) ==
    {p \in PostPaths(channel) : Strftime(pages[p].written) = date}

\* The address of (kind, channel, index) changed, or did not, in this step.
SameAddresses ==
    \A c \in Channels : \A i \in 1..3 :
        /\ generate_url(PostType(c), i)' = generate_url(PostType(c), i)
        /\ generate_url(ListType(c, 1, i), 1)' = generate_url(ListType(c, 1, i), 1)

OtherAddresses ==
    \A c \in Channels : \A i \in 1..3 :
        /\ generate_url(PostType(c), i)' # generate_url(PostType(c), i)
        /\ generate_url(ListType(c, 1, i), 1)' # generate_url(ListType(c, 1, i), 1)

\* C20 as stated: an address stays the same while the date does and changes
\* whenever the date does; a truthful find_total_posts returns 0 and the feed
\* is empty as long as no post was written on today's date.
C20_DateBuckets ==
    /\ [][/\ today' = today => SameAddresses
          /\ today' # today => OtherAddresses]_vars
    /\ []((rd.pc = "done" /\ TruthfulReads(rd) /\ PostsOfDate(rd.channel) = {})
              => (rd.total = 0 /\ rd.out = <<>>))

\* C20 as amended: an address stays the same while the month and day of the
\* date do and changes whenever they do; a truthful find_total_posts returns
\* the number of posts written on dates with today's month and day, of any
\* year, so it returns 0 and the feed is empty as long as there is none.
C20_MonthDayBuckets ==
    /\ [][/\ Strftime(today') = Strftime(today) => SameAddresses
          /\ Strftime(today') # Strftime(today) => OtherAddresses]_vars
    /\ []((rd.pc = "done" /\ TruthfulReads(rd))
              => /\ rd.total = Cardinality(PostsOfDay(rd.channel))
                 /\ PostsOfDay(rd.channel) = {} => rd.out = <<>>)

\* C20 witness: posts were written on the first date, the date advanced by
\* a day, and find_total_posts returned 0.
C20_Witness ==
    /\ CountDone /\ TruthfulReads(rd)
    /\ today = Calendar[2]
    /\ PostPaths(rd.channel) # {}
    /\ PostsOfDay(rd.channel) = {}
    /\ rd.total = 0

-----------------------------------------------------------------------------
(* Claims about preload_posts *)

\* The invocation is between the create_account and the create_page of its
\* cache write: the credential it left in the client is the one it will use.
HoldsCredential(r) == r.pc = "save_page"

\* C14: no step of one invocation changes state another invocation relies
\* on: while an invocation that does not run holds the credential for its
\* cache write, the client's credential stays as it is.
C14_NoSharedState ==
    [][\A k \in 1..Len(parked) :
          (HoldsCredential(parked[k]) /\ parked'[k] = parked[k])
              => token' = token]_vars

\* The invocation has asked for the cache entry of its window.
Touched(r) == LogOf(r, "read_cache") # <<>>

Key(r) == <<r.channel, r.start, r.end>>

\* C15: two invocations of preload_posts for different pages never touch the
\* same cache key.
C15_DisjointKeys ==
    \A k \in 1..Len(parked) :
        (Touched(rd) /\ Touched(parked[k]) /\ rd.pageNo # parked[k].pageNo)
            => Key(rd) # Key(parked[k])

-----------------------------------------------------------------------------
(* More claims about the count *)

\* The answer of the call's latest probe.
LastAnswer(r) == r.log[Len(r.log)].ans

\* C21: on a store of finitely many posts every call of find_total_posts
\* returns; the doubling goes on exactly while the probe of high answers
\* true, and every turn of the binary search makes right - left smaller,
\* the search ending exactly when left = right.
C21_CountTerminates ==
    /\ (rd.op = "count" /\ Counting(rd)) ~> CountDone
    /\ [][(rd.op = "count" /\ rd.pc = "validH" /\ rd' # rd) =>
              /\ (rd'.pc = "validH") = LastAnswer(rd')
              /\ (rd'.pc = "bsearch") = ~LastAnswer(rd')
              /\ LastAnswer(rd') => rd'.high = 2 * rd.high]_vars
    /\ [][(rd.op = "count" /\ rd.pc = "bsearch" /\ rd' # rd) =>
              /\ rd'.right - rd'.left < rd.right - rd.left
              /\ rd'.right - rd'.left >= 0
              /\ (rd'.pc = "done") = (rd'.left = rd'.right)
              /\ (rd'.pc = "bsearch") = (rd'.left < rd'.right)]_vars

\* C21 witness: a count that doubled twice and then searched has returned.
C21_Witness ==
    /\ CountDone
    /\ \E k \in 1..Len(rd.log) : rd.log[k].i = 4 * guess /\ ~rd.log[k].ans
    /\ \E k \in 1..Len(rd.log) : rd.log[k].at = "bsearch"
    /\ rd.left = rd.right

\* The call probed index i and the probe answered b.
Answer(r, i, b) == \E k \in 1..Len(r.log) : r.log[k].i = i /\ r.log[k].ans = b

\* C22: the value find_total_posts returns is witnessed by its probes: it
\* is 0 exactly when the probe of index 1 answered false, and a value r >= 1
\* was probed true with r + 1 probed false.
C22_WitnessedByProbes ==
    CountDone =>
        /\ (rd.total = 0) = Answer(rd, 1, FALSE)
        /\ rd.total >= 1 => /\ Answer(rd, rd.total, TRUE)
                            /\ Answer(rd, rd.total + 1, FALSE)
        /\ \A i \in 1..(2 * MaxN + 2) : ~(Answer(rd, i, TRUE) /\ Answer(rd, i, FALSE))

\* C22 witness: on a channel with a gap a count returned r >= 1 after
\* probing r true and r + 1 false.
C22_Witness ==
    /\ CountDone /\ ~Dense(rd.channel)
    /\ rd.total >= 1
    /\ Answer(rd, rd.total, TRUE) /\ Answer(rd, rd.total + 1, FALSE)

-----------------------------------------------------------------------------
(* Claims about the pages *)

\* The feed read has computed its window.
Windowed(r) ==
    /\ r.op = "feed"
    /\ r.pc \in {"read_cache", "cached", "fetch", "save_account", "save_page", "done"}

\* ceil(T / s)
Pages(T, s) == (T + s - 1) \div s

\* The window readlist_stream computes for page q, the total being r's.
WindowOf(r, q) == Window([r EXCEPT !.pageNo = q], r.total)

InWindow(r, q, i) == WindowOf(r, q).start <= i /\ i <= WindowOf(r, q).end

\* C23: for a total T >= 1 and a page size s the windows of pages
\* 1..ceil(T/s) are within 1..T, each begins where the next one ended, every
\* index of 1..T lies in exactly one of them, and a later page is empty.
C23_WindowsPartition ==
    (Windowed(rd) /\ rd.total >= 1) =>
        LET T == rd.total
            p == rd.pageNo
            n == Pages(rd.total, rd.pageSize)
        IN  /\ rd.start = WindowOf(rd, p).start /\ rd.end = WindowOf(rd, p).end
            /\ rd.start >= 1
            /\ p <= n => (rd.start <= rd.end /\ rd.end <= T)
            /\ p = 1 => rd.end = T
            /\ p = n => rd.start = 1
            /\ p < n => WindowOf(rd, p + 1).end = rd.start - 1
            /\ p > n => (rd.end <= 0 /\ rd.pc = "done" /\ rd.out = <<>>)
            /\ \A i \in 1..T : Cardinality({q \in 1..n : InWindow(rd, q, i)}) = 1
            /\ \A q \in 1..n : \A q2 \in (q + 1)..n : \A i \in 1..T :
                  ~(InWindow(rd, q, i) /\ InWindow(rd, q2, i))

\* C23 witness: the last page of a total of 7 in pages of 3 has been read:
\* it is the window 1..1.
C23_Witness ==
    /\ FeedDone
    /\ rd.total = 7 /\ rd.pageSize = 3 /\ rd.pageNo = 3
    /\ rd.start = 1 /\ rd.end = 1
    /\ Len(rd.out) = 1

-----------------------------------------------------------------------------
(* The terminal interface: ChatTUI of rnw.py. The main thread handles the  *)
(* keys, and every load_posts_stream starts a stream_worker thread; the    *)
(* running worker's readlist_stream call is rd, the others are in parked.  *)
(* The key q ends the program; the key w writes as WriteCall does and then  *)
(* loads as the key r does.                                                *)

TuiLoads == 3
TuiPosts == 2

page_size == 20

\* 159-178: the frame of a started stream_worker that has not run yet
stream_worker(id) == [load |-> id, shown |-> 0] @@ [RdIdle EXCEPT !.pc = "thread"]

\* 154-157: the three assignments of load_posts_stream
Reset(t) ==
    [t EXCEPT !.loading = TRUE, !.posts = <<>>, !.stream_complete = FALSE,
              !.load = @ + 1]

\* 154-178: load_posts_stream on the fields t: the fields are reset and a
\* new worker is started, whatever the earlier workers are doing.
load_posts_stream(t) ==
    /\ reads > 0
    /\ reads' = reads - 1
    /\ tui' = Reset(t)
    /\ IF rd.pc = "idle"
       THEN rd' = stream_worker(t.load + 1) /\ parked' = parked
       ELSE rd' = rd /\ parked' = Append(parked, stream_worker(t.load + 1))
    /\ UNCHANGED <<pages, today, token, faults, net, wr, writes>>

\* 285-291: run loads the first page before it reads any key
Run ==
    /\ tui.load = 0
    /\ load_posts_stream(tui)

\* 192-193: the key r
KeyRefresh ==
    /\ tui.load > 0
    /\ load_posts_stream(tui)

\* 198-204, 260-283: the key c leaves the channel, or asks for one (an
\* empty input is the global channel, an interrupt keeps the fields).
KeyChannel ==
    /\ tui.load > 0
    /\ IF tui.channel # ""
       THEN load_posts_stream([tui EXCEPT !.channel = "", !.current_page = 1])
       ELSE \E input \in Channels \cup {"interrupt"} :
              IF input = "interrupt"
              THEN load_posts_stream(tui)
              ELSE load_posts_stream([tui EXCEPT !.channel = input,
                                                 !.current_page = 1])

\* 206-208: the key n, taken once a worker has set stream_complete
KeyNext ==
    /\ tui.load > 0
    /\ tui.stream_complete
    /\ load_posts_stream([tui EXCEPT !.current_page = @ + 1])

\* 210-212: the key p
KeyPrev ==
    /\ tui.load > 0
    /\ tui.current_page > 1
    /\ load_posts_stream([tui EXCEPT !.current_page = @ - 1])

\* 162: the worker calls readlist_stream with the fields as they are when
\* it runs, not as they were when it was started.
StreamStart ==
    /\ rd.pc = "thread"
    /\ rd' = [rd EXCEPT !.pc = "valid1", !.op = "feed", !.channel = tui.channel,
                        !.pageNo = tui.current_page, !.pageSize = page_size]
    /\ UNCHANGED <<pages, today, token, faults, net, wr, writes, reads, parked, tui>>

\* The worker has appended every post that its generator has yielded.
Consumed == rd.pc # "idle" /\ rd.shown = Len(rd.out)

\* 163: self.posts.append(post) on the list that self.posts is now
StreamAppends(t, r) ==
    [t EXCEPT !.posts = Append(@, [load |-> r.load, k |-> r.shown + 1,
                                   post |-> r.out[r.shown + 1]])]

StreamAppend ==
    /\ rd.pc \notin {"idle", "thread"}
    /\ rd.shown < Len(rd.out)
    /\ tui' = StreamAppends(tui, rd)
    /\ rd' = [rd EXCEPT !.shown = @ + 1]
    /\ UNCHANGED <<pages, today, token, faults, net, wr, writes, reads, parked>>

\* 168-173: the generator is exhausted (stream_complete) or has raised, and
\* the finally clause clears loading.
StreamEnd ==
    /\ rd.pc \in {"done", "raised"}
    /\ Consumed
    /\ tui' = [tui EXCEPT !.stream_complete = (rd.pc = "done") \/ @,
                          !.loading = FALSE]
    /\ rd' = RdIdle
    /\ UNCHANGED <<pages, today, token, faults, net, wr, writes, reads, parked>>

InitTui ==
    /\ today = Calendar[1]
    /\ parked = <<>>
    /\ tui = ChatTUI
    /\ pages = StoreOf("", 1..TuiPosts) @@ StoreOf("a", 1..TuiPosts)
    /\ token = NoToken
    /\ faults = 0
    /\ net = {}
    /\ wr = WrIdle
    /\ rd = RdIdle
    /\ writes = 0
    /\ reads = TuiLoads

NextTui ==
    \/ Run
    \/ KeyRefresh
    \/ KeyNext
    \/ KeyPrev
    \/ KeyChannel
    \/ Switch
    \/ StreamStart
    \/ ValidFirst
    \/ ValidGuess
    \/ ValidMid
    \/ ReadCache
    \/ Consumed /\ YieldCached
    \/ Consumed /\ Fetch
    \/ Consumed /\ SaveCreateAccount
    \/ Consumed /\ SaveCreatePage
    \/ StreamAppend
    \/ StreamEnd

SpecTui == InitTui /\ [][NextTui]_vars

\* The newest load's worker has been started and has not ended.
NewestRuns ==
    \/ rd.pc # "idle" /\ rd.load = tui.load
    \/ \E k \in 1..Len(parked) : parked[k].pc # "idle" /\ parked[k].load = tui.load

\* C24: the displayed list holds only posts of the most recently started
\* load, each of them once, and loading stays set while the worker of that
\* load is running.
C24_NewestLoadOnly ==
    /\ \A k \in 1..Len(tui.posts) : tui.posts[k].load = tui.load
    /\ \A j \in 1..Len(tui.posts) : \A k \in (j + 1)..Len(tui.posts) :
          tui.posts[j].k # tui.posts[k].k
    /\ NewestRuns => tui.loading

====
